---- MODULE Spec2Model ----
(***************************************************************************)
(* Model of the API key subsystem of web-fetcher: src/app/APIKey.py        *)
(* (FileLock, APIPermission, APIKeyManager) and the HTTP layer that uses   *)
(* it (src/main.py).                                                       *)
(*                                                                         *)
(* Spec    one manager used by one process: every handler is one action,   *)
(*         its save to the store file included.                            *)
(* SpecIO  Spec with saves that may raise.                                  *)
(* SpecLoad    a manager constructed on whatever the persist path holds.   *)
(* SpecShared  several managers on one persist path, one call at a time.   *)
(* SpecFS  several processes sharing one persist path: load and save are   *)
(*         split into their system calls (open, flock, write, replace).    *)
(* SpecFSFair  SpecFS under fair scheduling.                               *)
(* SpecFSIO    SpecFS with reads and writes that may fail.                 *)
(*                                                                         *)
(* Optional values (Python None) are sequences: <<>> is None, <<v>> is v.  *)
(***************************************************************************)
EXTENDS Integers, Sequences, FiniteSets, TLC

VARIABLES
    apikey_store,   \* APIKeyManager.apikey_store: hashed key -> meta record
    file,           \* content of persist_file as one process sees it (SpecLoad:
                    \* what the path holds, well-formed or not)
    now,            \* the clock read by datetime.now(UTC)
    issued,         \* the secrets generate_apikey has drawn so far, in order
    last,           \* the last call: its arguments and what it returned or raised
    disabledKeys,   \* history: secrets disabled with result True and not deleted since
    proc,           \* per process, its manager and its place in load / save
    fsPath,         \* SpecFS: directory entries, path name -> inode (0: no such file)
    fsData,         \* SpecFS: inode -> file content, a sequence of written chunks
    fsLock,         \* SpecFS: inode -> the process holding the flock on it (0: free)
    revoked,        \* SpecShared: history: secrets whose disable or delete returned True
    faults          \* SpecFSIO: history: reads and writes that have failed so far

mgrVars == <<apikey_store, file, now, issued, last, disabledKeys>>

\* the history of a run on the shared path
fsHist == <<revoked, faults>>

fsVars == <<proc, fsPath, fsData, fsLock, revoked, faults>>

vars ==
    <<apikey_store, file, now, issued, last, disabledKeys, proc, fsPath, fsData, fsLock,
      revoked, faults>>

-----------------------------------------------------------------------------
(* Bounds of the model *)

\* generate_apikey calls that reach the random draw in one run
MaxKeys == 2

\* the clock runs over 0 .. MaxTime
MaxTime == 1

\* processes sharing the persist path
NumProcs == 2

\* SpecFS: generate_apikey calls that reach the random draw in one run
MaxSharedKeys == 1

\* SpecFSIO: reads and writes that fail in one run
MaxFaults == 1

-----------------------------------------------------------------------------
(* Program constants *)

READ == 1

WRITE == 2

DELETE == 4

MinLength == 8

DefaultLength == 32

DefaultPrefix == "sk-"

Salt == "test-salt-123"

None == <<>>

Some(v) == <<v>>

-----------------------------------------------------------------------------
(* APIPermission: a Flag is held as the set of its bits, its _value_ is    *)
(* their sum.                                                              *)

PermBits == {READ, WRITE, DELETE}

NONE == {}

READ_WRITE == {READ, WRITE}

FULL_ACCESS == {READ, WRITE, DELETE}

\* Flag.__and__
PermAnd(a, b) == a \cap b

\* Flag.__or__
PermOr(a, b) == a \cup b

\* value._value_
PermValue(p) ==
    (IF READ \in p THEN READ ELSE 0) + (IF WRITE \in p THEN WRITE ELSE 0)
        + (IF DELETE \in p THEN DELETE ELSE 0)

\* APIPermission(val_int)
PermOfValue(v) == {b \in PermBits : (v \div b) % 2 = 1}

-----------------------------------------------------------------------------
(* Text helpers for APIPermission.from_str: str.lower, str.strip and       *)
(* str.split(",") on TLC strings.                                          *)

UpperChars == "ABCDEFGHIJKLMNOPQRSTUVWXYZ"

LowerChars == "abcdefghijklmnopqrstuvwxyz"

CharAt(s, i) == SubSeq(s, i, i)

Tail1(s) == SubSeq(s, 2, Len(s))

LowerChar(c) ==
    IF \E i \in 1..Len(UpperChars) : CharAt(UpperChars, i) = c
    THEN CharAt(LowerChars, CHOOSE i \in 1..Len(UpperChars) : CharAt(UpperChars, i) = c)
    ELSE c

RECURSIVE StrLower(_)
StrLower(s) == IF Len(s) = 0 THEN "" ELSE LowerChar(CharAt(s, 1)) \o StrLower(Tail1(s))

RECURSIVE StripLeft(_)
StripLeft(s) ==
    IF Len(s) > 0 /\ CharAt(s, 1) = " " THEN StripLeft(Tail1(s)) ELSE s

RECURSIVE StripRight(_)
StripRight(s) ==
    IF Len(s) > 0 /\ CharAt(s, Len(s)) = " "
    THEN StripRight(SubSeq(s, 1, Len(s) - 1))
    ELSE s

StrStrip(s) == StripRight(StripLeft(s))

\* position of the first comma of s, 0 when it has none
FirstComma(s) ==
    IF \E i \in 1..Len(s) : CharAt(s, i) = ","
    THEN CHOOSE i \in 1..Len(s) :
            CharAt(s, i) = "," /\ \A j \in 1..(i - 1) : CharAt(s, j) # ","
    ELSE 0

RECURSIVE StrSplit(_)
StrSplit(s) ==
    IF FirstComma(s) = 0
    THEN <<s>>
    ELSE <<SubSeq(s, 1, FirstComma(s) - 1)>> \o StrSplit(SubSeq(s, FirstComma(s) + 1, Len(s)))

PermissionNames == {"read", "write", "delete", "read_write", "full_access", "none"}

\* permission_map of from_str
PermissionMap(name) ==
    CASE name = "read" -> {READ}
      [] name = "write" -> {WRITE}
      [] name = "delete" -> {DELETE}
      [] name = "read_write" -> READ_WRITE
      [] name = "full_access" -> FULL_ACCESS
      [] name = "none" -> NONE

RECURSIVE FromStrParts(_, _)
FromStrParts(parts, permissions) ==
    IF parts = <<>>
    THEN permissions
    ELSE FromStrParts(
            Tail(parts),
            IF StrStrip(Head(parts)) \in PermissionNames
            THEN PermOr(permissions, PermissionMap(StrStrip(Head(parts))))
            ELSE permissions)

\* mutant: from_str without the lower()
FromStr_CaseSensitive(permission_str) ==
    IF Len(permission_str) = 0
    THEN NONE
    ELSE FromStrParts(StrSplit(permission_str), NONE)

\* APIPermission.from_str
FromStr(permission_str) ==
    IF Len(permission_str) = 0
    THEN NONE
    ELSE FromStrParts(StrSplit(StrLower(permission_str)), NONE)

-----------------------------------------------------------------------------
(* datetime values: wall is the wall-clock reading in hours, tz is None    *)
(* for a naive datetime and Some(offset in hours) for an aware one.        *)

UTC == Some(0)

Datetime(wall, tz) == [wall |-> wall, tz |-> tz]

\* the instant an aware datetime denotes; aware datetimes are compared by it
Instant(dt) == dt.wall - dt.tz[1]

\* mutant: the wall-clock readings are compared, the offsets ignored
DtGreater_WallClock(a, b) == a.wall > b.wall

\* datetime.__gt__ on two aware datetimes
DtGreater(a, b) == Instant(a) > Instant(b)

\* the offset suffix datetime.isoformat writes
OffsetText(tz) ==
    IF tz = None THEN ""
    ELSE CASE tz[1] = 0 -> "+00:00"
           [] tz[1] = 1 -> "+01:00"
           [] tz[1] = -1 -> "-01:00"

\* the offset datetime.fromisoformat reads
OffsetOfText(text) ==
    CASE text = "" -> None
      [] text = "+00:00" -> Some(0)
      [] text = "+01:00" -> Some(1)
      [] text = "-01:00" -> Some(-1)

\* datetime.isoformat
IsoFormat(dt) == [iso |-> dt.wall, offset |-> OffsetText(dt.tz)]

\* datetime.fromisoformat
FromIsoFormat(text) == Datetime(text.iso, OffsetOfText(text.offset))

\* mutant: the offset read from the file is overwritten with UTC
AssumeUTC_Always(dt) == Datetime(dt.wall, UTC)

\* dt.replace(tzinfo=UTC) when dt.tzinfo is None
AssumeUTC(dt) == IF dt.tz = None THEN Datetime(dt.wall, UTC) ELSE dt

-----------------------------------------------------------------------------
(* APIKeyManager: hashing and (de)serialization *)

\* _hash_apikey: HMAC-SHA256 keyed by the salt, taken as injective
HashApikey(apikey) == <<"hmac-sha256", Salt, apikey>>

\* _serialize_value on a datetime or None
SerializeDatetime(value) == IF value = None THEN None ELSE Some(IsoFormat(value[1]))

\* _serialize_value on an APIPermission
SerializePermission(value) == PermValue(value)

\* the inner loop of _save_to_file over one meta
SerializeMeta(meta) ==
    [raw_apikey |-> meta.raw_apikey,
     expire_at |-> SerializeDatetime(meta.expire_at),
     permissions |-> SerializePermission(meta.permissions),
     created_at |-> SerializeDatetime(meta.created_at),
     user_id |-> meta.user_id,
     is_active |-> meta.is_active]

\* serialized_data of _save_to_file, as json.dump writes it
SerializeStore(store) == [h \in DOMAIN store |-> SerializeMeta(store[h])]

\* _deserialize_value for expire_at / created_at
DeserializeDatetime(value) ==
    IF value = None THEN None ELSE Some(AssumeUTC(FromIsoFormat(value[1])))

\* _deserialize_value for permissions
DeserializePermission(value) == PermOfValue(value)

\* the inner loop of _load_from_file over one meta
DeserializeMeta(meta) ==
    [raw_apikey |-> meta.raw_apikey,
     expire_at |-> DeserializeDatetime(meta.expire_at),
     permissions |-> DeserializePermission(meta.permissions),
     created_at |-> DeserializeDatetime(meta.created_at),
     user_id |-> meta.user_id,
     is_active |-> meta.is_active]

\* the loop of _load_from_file over raw_data
DeserializeStore(raw_data) == [h \in DOMAIN raw_data |-> DeserializeMeta(raw_data[h])]

\* the empty dict {}
EmptyStore == [h \in {} |-> None]

\* _load_from_file as one process alone sees it: no file, or the JSON of a save
LoadFromFile(f) == IF f = None THEN EmptyStore ELSE DeserializeStore(f[1])

\* _save_to_file as one process alone sees it: the live file is replaced
SaveToFile(store) == Some(SerializeStore(store))

-----------------------------------------------------------------------------
(* APIKeyManager.generate_apikey *)

\* _get_charset with use_safe_chars=True, include_symbols=False
GetCharset == "abcdefghijkmnpqrstuvwxyzABCDEFGHIJKMNPQRSTUVWXYZ23456789"

RECURSIVE Repeat(_, _)
Repeat(c, n) == IF n <= 0 THEN "" ELSE c \o Repeat(c, n - 1)

\* "".join(secrets.choice(charset) for _ in range(length)): `length` draws
\* from the charset.  The draw never repeats a secret issued before (a repeat
\* has probability at most 56^-8); the operations only compare secrets for
\* equality, so the k-th draw of a run is represented by `length` copies of
\* the k-th character of the charset.
RandomPart(length, drawn) == Repeat(CharAt(GetCharset, Len(drawn) + 1), length)

\* length = length or self.default_length
LengthOrDefault(length) ==
    IF length = None \/ length[1] = 0 THEN DefaultLength ELSE length[1]

\* prefix = prefix or self.default_prefix
PrefixOrDefault(prefix) ==
    IF prefix = None \/ prefix[1] = "" THEN DefaultPrefix ELSE prefix[1]

\* raw_apikey = f"{prefix}{random_part}" if prefix else random_part
RawApikey(prefix, random_part) ==
    IF prefix # "" THEN prefix \o random_part ELSE random_part

\* the isinstance chain on permissions: a str is parsed, a flag is kept
PermissionsOf(permissions) ==
    IF permissions.kind = "str" THEN FromStr(permissions.text) ELSE permissions.flag

\* the isinstance chain on expire_at, clock being datetime.now(UTC)
ExpireAtOf(expire_at, clock) ==
    CASE expire_at.kind = "timedelta" ->
            Some(Datetime(clock.wall + expire_at.delta, clock.tz))
      [] expire_at.kind = "datetime" ->
            Some(IF expire_at.dt.tz = None
                 THEN Datetime(expire_at.dt.wall, UTC)
                 ELSE expire_at.dt)
      [] expire_at.kind = "none" -> None

\* the meta dict stored under the hashed key
NewMeta(raw_apikey, expire_at, permissions, clock, user_id) ==
    [raw_apikey |-> raw_apikey,
     expire_at |-> expire_at,
     permissions |-> permissions,
     created_at |-> Some(clock),
     user_id |-> user_id,
     is_active |-> TRUE]

\* self.apikey_store[hashed_apikey] = meta
StorePut(store, h, meta) ==
    [k \in DOMAIN store \cup {h} |-> IF k = h THEN meta ELSE store[k]]

\* mutant: delete empties the store
StoreDel_Clear(store, h) == [k \in {} |-> None]

\* del self.apikey_store[hashed]
StoreDel(store, h) == [k \in DOMAIN store \ {h} |-> store[k]]

\* datetime.now(UTC)
Now == Datetime(now, UTC)

Raised(exc) == [raised |-> exc]

Returned(v) == [ret |-> v]

GenerateApikey(args) ==
    LET length == LengthOrDefault(args.length)
        prefix == PrefixOrDefault(args.prefix)
    IN
    \/ /\ length < MinLength
       /\ last' = [op |-> "generate", args |-> args, res |-> Raised("ValueError")]
       /\ UNCHANGED <<apikey_store, file, now, issued, disabledKeys, fsVars>>
    \/ /\ length >= MinLength
       /\ args.permissions.kind = "other"
       /\ last' = [op |-> "generate", args |-> args, res |-> Raised("TypeError")]
       /\ UNCHANGED <<apikey_store, file, now, issued, disabledKeys, fsVars>>
    \/ /\ length >= MinLength
       /\ args.permissions.kind # "other"
       /\ args.expire_at.kind = "other"
       /\ last' = [op |-> "generate", args |-> args, res |-> Raised("TypeError")]
       /\ UNCHANGED <<apikey_store, file, now, issued, disabledKeys, fsVars>>
    \/ /\ length >= MinLength
       /\ args.permissions.kind # "other"
       /\ args.expire_at.kind # "other"
       /\ Len(issued) < MaxKeys
       /\ LET raw_apikey == RawApikey(prefix, RandomPart(length, issued))
              meta == NewMeta(raw_apikey,
                              ExpireAtOf(args.expire_at, Now),
                              PermissionsOf(args.permissions),
                              Now,
                              args.user_id)
          IN /\ apikey_store' = StorePut(apikey_store, HashApikey(raw_apikey), meta)
             /\ file' = SaveToFile(apikey_store')
             /\ issued' = Append(issued, raw_apikey)
             /\ last' = [op |-> "generate", args |-> args, res |-> Returned(raw_apikey)]
       /\ UNCHANGED <<now, disabledKeys, fsVars>>

-----------------------------------------------------------------------------
(* APIKeyManager.validate_apikey, disable_apikey, delete_apikey,           *)
(* get_apikey_meta.  The messages stand for the source's texts:            *)
(* "not found" APIKey不存在, "disabled" APIKey已禁用, "expired" APIKey已过期,  *)
(* "insufficient permission" 权限不足, "ok" 校验通过.                          *)

Verdict(is_valid, is_expired, has_permission, message) ==
    [is_valid |-> is_valid,
     is_expired |-> is_expired,
     has_permission |-> has_permission,
     message |-> message]

VerdictOk(meta, has_perm) ==
    [is_valid |-> TRUE,
     is_expired |-> FALSE,
     has_permission |-> has_perm,
     message |-> "ok",
     permissions |-> meta.permissions,
     expire_at |-> meta.expire_at,
     created_at |-> meta.created_at,
     user_id |-> meta.user_id]

\* `if required_permissions:` None and APIPermission.NONE are falsy
Truthy(required_permissions) ==
    required_permissions # None /\ required_permissions[1] # NONE

\* mutant: the expiry is checked before the active flag
ValidateApikey_ExpiryFirst(store, clock, api_key, required_permissions) ==
    LET hashed_apikey == HashApikey(api_key) IN
    IF hashed_apikey \notin DOMAIN store
    THEN Verdict(FALSE, FALSE, FALSE, "not found")
    ELSE LET meta == store[hashed_apikey] IN
         IF meta.expire_at # None /\ DtGreater(clock, meta.expire_at[1])
         THEN Verdict(FALSE, TRUE, FALSE, "expired")
         ELSE IF ~meta.is_active
         THEN Verdict(FALSE, FALSE, FALSE, "disabled")
         ELSE IF /\ Truthy(required_permissions)
                 /\ PermAnd(meta.permissions, required_permissions[1])
                        # required_permissions[1]
         THEN Verdict(TRUE, FALSE, FALSE, "insufficient permission")
         ELSE VerdictOk(meta, TRUE)

\* validate_apikey on the store `store` at clock reading `clock`
ValidateApikey(store, clock, api_key, required_permissions) ==
    LET hashed_apikey == HashApikey(api_key) IN
    IF hashed_apikey \notin DOMAIN store
    THEN Verdict(FALSE, FALSE, FALSE, "not found")
    ELSE LET meta == store[hashed_apikey] IN
         IF ~meta.is_active
         THEN Verdict(FALSE, FALSE, FALSE, "disabled")
         ELSE IF meta.expire_at # None /\ DtGreater(clock, meta.expire_at[1])
         THEN Verdict(FALSE, TRUE, FALSE, "expired")
         ELSE IF /\ Truthy(required_permissions)
                 /\ PermAnd(meta.permissions, required_permissions[1])
                        # required_permissions[1]
         THEN Verdict(TRUE, FALSE, FALSE, "insufficient permission")
         ELSE VerdictOk(meta, TRUE)

\* mutant: validate marks the key it finds expired as inactive and saves
Validate_DisablesExpired(api_key, required_permissions) ==
    LET res == ValidateApikey(apikey_store, Now, api_key, required_permissions) IN
    /\ last' = [op |-> "validate",
                api_key |-> api_key,
                required |-> required_permissions,
                res |-> Returned(res)]
    /\ apikey_store' = IF res.is_expired
                       THEN [apikey_store EXCEPT ![HashApikey(api_key)].is_active = FALSE]
                       ELSE apikey_store
    /\ file' = IF res.is_expired THEN SaveToFile(apikey_store') ELSE file
    /\ UNCHANGED <<now, issued, disabledKeys, fsVars>>

Validate(api_key, required_permissions) ==
    /\ last' = [op |-> "validate",
                api_key |-> api_key,
                required |-> required_permissions,
                res |-> Returned(ValidateApikey(apikey_store, Now, api_key,
                                                required_permissions))]
    /\ UNCHANGED <<apikey_store, file, now, issued, disabledKeys, fsVars>>

\* mutant: disable also drops the expiry of the record
Deactivate_ClearsExpiry(store, h) ==
    [store EXCEPT ![h].is_active = FALSE, ![h].expire_at = None]

\* mutant: disable flips the flag instead of clearing it
Deactivate_Toggle(store, h) == [store EXCEPT ![h].is_active = ~@]

\* mutant: disable leaves the flag as it is
Deactivate_Noop(store, h) == store

\* self.apikey_store[hashed]["is_active"] = False
Deactivate(store, h) == [store EXCEPT ![h].is_active = FALSE]

DisableApikey(raw_apikey) ==
    LET hashed == HashApikey(raw_apikey) IN
    \/ /\ hashed \notin DOMAIN apikey_store
       /\ last' = [op |-> "disable", api_key |-> raw_apikey, res |-> Returned(FALSE)]
       /\ UNCHANGED <<apikey_store, file, now, issued, disabledKeys, fsVars>>
    \/ /\ hashed \in DOMAIN apikey_store
       /\ apikey_store' = Deactivate(apikey_store, hashed)
       /\ file' = SaveToFile(apikey_store')
       /\ last' = [op |-> "disable", api_key |-> raw_apikey, res |-> Returned(TRUE)]
       /\ disabledKeys' = disabledKeys \cup {raw_apikey}
       /\ UNCHANGED <<now, issued, fsVars>>

DeleteApikey(raw_apikey) ==
    LET hashed == HashApikey(raw_apikey) IN
    \/ /\ hashed \notin DOMAIN apikey_store
       /\ last' = [op |-> "delete", api_key |-> raw_apikey, res |-> Returned(FALSE)]
       /\ UNCHANGED <<apikey_store, file, now, issued, disabledKeys, fsVars>>
    \/ /\ hashed \in DOMAIN apikey_store
       /\ apikey_store' = StoreDel(apikey_store, hashed)
       /\ file' = SaveToFile(apikey_store')
       /\ last' = [op |-> "delete", api_key |-> raw_apikey, res |-> Returned(TRUE)]
       /\ disabledKeys' = disabledKeys \ {raw_apikey}
       /\ UNCHANGED <<now, issued, fsVars>>

\* self.apikey_store.get(hash)
StoreGet(store, h) == IF h \in DOMAIN store THEN Some(store[h]) ELSE None

GetApikeyMeta(raw_apikey) ==
    /\ last' = [op |-> "get_meta", api_key |-> raw_apikey,
                res |-> Returned(StoreGet(apikey_store, HashApikey(raw_apikey)))]
    /\ UNCHANGED <<apikey_store, file, now, issued, disabledKeys, fsVars>>

\* a new APIKeyManager on the same salt and persist_file: __init__ loads the file
Restart ==
    /\ apikey_store' = LoadFromFile(file)
    /\ last' = [op |-> "restart"]
    /\ UNCHANGED <<file, now, issued, disabledKeys, fsVars>>

\* time passes
Tick ==
    /\ now < MaxTime
    /\ now' = now + 1
    /\ UNCHANGED <<apikey_store, file, issued, last, disabledKeys, fsVars>>

-----------------------------------------------------------------------------
(* The HTTP layer, src/main.py: get_api_key is the dependency of the route *)
(* fetch_html; when it raises, the route body does not run.                *)

HTTP_403_FORBIDDEN == 403

HTTP_500_INTERNAL_SERVER_ERROR == 500

HTTP_200_OK == 200

\* if not valid["is_valid"]: raise HTTPException(403)
Rejects(valid) == ~valid.is_valid

\* one GET request carrying the header X-API-Key (None when it is missing)
FetchHtml(api_key_header_value) ==
    \/ /\ api_key_header_value = None
       \* validate_apikey(None, ...) raises AttributeError in _hash_apikey
       /\ last' = [op |-> "request", header |-> api_key_header_value,
                   status |-> HTTP_500_INTERNAL_SERVER_ERROR, fetched |-> FALSE]
       /\ UNCHANGED <<apikey_store, file, now, issued, disabledKeys, fsVars>>
    \/ /\ api_key_header_value # None
       /\ LET valid == ValidateApikey(apikey_store, Now, api_key_header_value[1],
                                      Some({READ}))
          IN IF Rejects(valid)
             THEN last' = [op |-> "request", header |-> api_key_header_value,
                           valid |-> valid,
                           status |-> HTTP_403_FORBIDDEN, fetched |-> FALSE]
             ELSE last' = [op |-> "request", header |-> api_key_header_value,
                           valid |-> valid,
                           status |-> HTTP_200_OK, fetched |-> TRUE]
       /\ UNCHANGED <<apikey_store, file, now, issued, disabledKeys, fsVars>>

-----------------------------------------------------------------------------
(* Inputs *)

Lengths ==
    {None, Some(-1), Some(0), Some(MinLength - 1), Some(MinLength), Some(MinLength + 1)}

Prefixes == {None, Some(""), Some("pk-")}

UserIds == {None, Some("test_user")}

Flag(p) == [kind |-> "flag", flag |-> p]

Text(s) == [kind |-> "str", text |-> s]

OtherType == [kind |-> "other"]

PermissionTexts == {"", "read,write", "READ, Delete", "full_access", "write,bogus", "none"}

PermissionInputs ==
    {Flag(p) : p \in SUBSET PermBits} \cup {Text(s) : s \in PermissionTexts} \cup {OtherType}

NoExpiry == [kind |-> "none"]

Timedelta(d) == [kind |-> "timedelta", delta |-> d]

Absolute(dt) == [kind |-> "datetime", dt |-> dt]

\* no expiry, a wrong type, durations, a naive timestamp and an aware one at +01:00
ExpireInputs ==
    {NoExpiry, OtherType}
        \cup {Timedelta(d) : d \in {-1, 0, 1}}
        \cup {Absolute(Datetime(0, None)), Absolute(Datetime(1, Some(1)))}

GenerateArgs(expire_at, permissions, user_id, length, prefix) ==
    [expire_at |-> expire_at, permissions |-> permissions, user_id |-> user_id,
     length |-> length, prefix |-> prefix]

\* the defaults of generate_apikey but for the permission, as the route needs READ
DefaultArgs == GenerateArgs(NoExpiry, Flag({READ}), None, None, None)

\* the argument vectors of the first generate_apikey of a run: each argument
\* varies over its inputs with the others at their defaults, and the expiry
\* varies together with the permission
FirstInputs ==
    {GenerateArgs(NoExpiry, p, None, None, None) : p \in PermissionInputs}
        \cup {GenerateArgs(e, Flag(p), None, None, None) :
                e \in ExpireInputs, p \in {NONE, {READ}}}
        \cup {GenerateArgs(NoExpiry, Flag({READ}), None, n, None) : n \in Lengths}
        \cup {GenerateArgs(NoExpiry, Flag({READ}), None, None, x) : x \in Prefixes}
        \cup {GenerateArgs(NoExpiry, Flag({READ}), u, None, None) : u \in UserIds}

\* the argument vectors of the later calls
LaterInputs ==
    {DefaultArgs, GenerateArgs(NoExpiry, Flag(NONE), None, Some(MinLength - 1), None)}

GenerateInputs == IF issued = <<>> THEN FirstInputs ELSE LaterInputs

UnknownSecret == "sk-unknown"

\* the secrets a caller presents: those issued and one that never was
Secrets == {issued[i] : i \in DOMAIN issued} \cup {UnknownSecret}

\* the X-API-Key header of a request: missing, or a secret
Headers == {None} \cup {Some(s) : s \in Secrets}

\* every required_permissions argument
RequiredSets == {None} \cup {Some(p) : p \in SUBSET PermBits}

\* the required_permissions the callers of this repository pass
RequiredInputs == {None, Some({READ}), Some({DELETE})}

-----------------------------------------------------------------------------------------------------------------------------------------------------
(* The persist path shared by several processes, on the fcntl branch of   *)
(* FileLock.  A file is an inode; a path names an inode; flock locks the   *)
(* inode of the descriptor it is given, so a lock taken through a path     *)
(* does not follow the path when os.replace gives it another inode.        *)
(* json.dump reaches the file in two writes (the head and the tail of a    *)
(* text longer than the file buffer), each at the descriptor's own offset; *)
(* open(temp_file, "w") truncates the file the temp path names.            *)

Procs == 1..NumProcs

\* live file, temp file, and per process one lock and one temp descriptor
Inodes == 1..(2 + 2 * NumProcs)

Chunk(doc, part) == [doc |-> doc, part |-> part]

\* the zero bytes a write past the end of a file leaves before it
Hole == [doc |-> <<>>, part |-> 0]

\* the text json.dump produces for serialized_data, in two writes
Chunks(doc) == <<Chunk(doc, 1), Chunk(doc, 2)>>

\* the content is the whole text of one json.dump
IsDocument(content) ==
    /\ Len(content) = 2
    /\ content[1].part = 1
    /\ content[2].part = 2
    /\ content[1].doc = content[2].doc

\* write(2) of `chunk` at offset `pos`
WriteAt(content, pos, chunk) ==
    LET padded == IF Len(content) < pos
                  THEN content \o [i \in 1..(pos - Len(content)) |-> Hole]
                  ELSE content
    IN IF Len(padded) = pos
       THEN Append(padded, chunk)
       ELSE [padded EXCEPT ![pos + 1] = chunk]

\* json.load of the file content: the store, or JSONDecodeError -> {}
JsonLoadStore(content) ==
    IF IsDocument(content) THEN DeserializeStore(content[1].doc) ELSE EmptyStore

\* an inode is in use while a path or an open descriptor refers to it
Referenced(i, path, procs) ==
    \/ \E n \in DOMAIN path : path[n] = i
    \/ \E p \in Procs : procs[p].lock_fd = i \/ procs[p].tmp_fd = i

\* the inode a creating open() allocates
FreshInode == CHOOSE i \in Inodes :
    /\ ~Referenced(i, fsPath, proc)
    /\ \A j \in Inodes : j < i => Referenced(j, fsPath, proc)

\* the content of inodes nothing refers to any more is gone
Reclaim(data, path, procs) ==
    [i \in Inodes |-> IF Referenced(i, path, procs) THEN data[i] ELSE <<>>]

InitProc ==
    [pc |-> "start", store |-> EmptyStore, lock_fd |-> 0, tmp_fd |-> 0,
     pos |-> 0, buf |-> <<>>, failed |-> FALSE]

-----------------------------------------------------------------------------
(* FileLock.__enter__ and __exit__ *)

\* self.lock_fd = open(self.file_path, "a+"): creates the file when it is absent
LockOpen(p, next_pc) ==
    IF fsPath.live = 0
    THEN /\ fsPath' = [fsPath EXCEPT !.live = FreshInode]
         /\ proc' = [proc EXCEPT ![p].lock_fd = FreshInode, ![p].pc = next_pc]
    ELSE /\ proc' = [proc EXCEPT ![p].lock_fd = fsPath.live, ![p].pc = next_pc]
         /\ UNCHANGED fsPath

\* fcntl.flock(fd, LOCK_EX): blocks while another descriptor holds the inode's lock
LockAcquire(p, next_pc) ==
    /\ fsLock[proc[p].lock_fd] = 0
    /\ fsLock' = [fsLock EXCEPT ![proc[p].lock_fd] = p]
    /\ proc' = [proc EXCEPT ![p].pc = next_pc]

\* mutant: the lock is released at the end of the block, not in __exit__, so
\* an exception inside the block skips the release
LockRelease_SkippedOnError(p, next_pc) ==
    /\ fsLock' = IF proc[p].failed THEN fsLock ELSE [fsLock EXCEPT ![proc[p].lock_fd] = 0]
    /\ proc' = [proc EXCEPT ![p].lock_fd = IF proc[p].failed THEN @ ELSE 0,
                            ![p].pc = next_pc]
    /\ fsData' = Reclaim(fsData, fsPath, proc')

\* mutant: __exit__ returns without unlocking and closing the descriptor
LockRelease_KeepsLock(p, next_pc) ==
    /\ proc' = [proc EXCEPT ![p].pc = next_pc]
    /\ UNCHANGED <<fsLock, fsData>>

\* fcntl.flock(fd, LOCK_UN); self.lock_fd.close()
LockRelease(p, next_pc) ==
    /\ fsLock' = [fsLock EXCEPT ![proc[p].lock_fd] = 0]
    /\ proc' = [proc EXCEPT ![p].lock_fd = 0, ![p].pc = next_pc]
    /\ fsData' = Reclaim(fsData, fsPath, proc')

-----------------------------------------------------------------------------
(* APIKeyManager.__init__ -> _load_from_file, one system call per action *)

\* if not os.path.exists(self.persist_file): return {}
LoadExists(p) ==
    /\ proc[p].pc = "start"
    /\ IF fsPath.live = 0
       THEN proc' = [proc EXCEPT ![p].pc = "ready", ![p].store = EmptyStore,
                                 ![p].failed = FALSE]
       ELSE proc' = [proc EXCEPT ![p].pc = "load_open", ![p].failed = FALSE]
    /\ UNCHANGED <<mgrVars, fsPath, fsData, fsLock, fsHist>>

LoadLockOpen(p) ==
    /\ proc[p].pc = "load_open"
    /\ LockOpen(p, "load_lock")
    /\ UNCHANGED <<mgrVars, fsData, fsLock, fsHist>>

LoadLockAcquire(p) ==
    /\ proc[p].pc = "load_lock"
    /\ LockAcquire(p, "load_read")
    /\ UNCHANGED <<mgrVars, fsPath, fsData, fsHist>>

\* with open(self.persist_file, "r") as f: raw_data = json.load(f), and the
\* loop that deserializes it
LoadRead(p) ==
    /\ proc[p].pc = "load_read"
    /\ proc' = [proc EXCEPT ![p].pc = "load_unlock",
                            ![p].store = JsonLoadStore(fsData[fsPath.live])]
    /\ UNCHANGED <<mgrVars, fsPath, fsData, fsLock, fsHist>>

\* f.read() raises OSError: the exception leaves both `with` blocks and
\* becomes RuntimeError
LoadReadFails(p) ==
    /\ proc[p].pc = "load_read"
    /\ faults < MaxFaults
    /\ faults' = faults + 1
    /\ proc' = [proc EXCEPT ![p].pc = "load_unlock", ![p].failed = TRUE]
    /\ UNCHANGED <<mgrVars, fsPath, fsData, fsLock, revoked>>

\* FileLock.__exit__ of the load: the constructor returns, or raises and
\* leaves no manager
LoadLockRelease(p) ==
    /\ proc[p].pc = "load_unlock"
    /\ LockRelease(p, IF proc[p].failed THEN "start" ELSE "ready")
    /\ UNCHANGED <<mgrVars, fsPath, fsHist>>

-----------------------------------------------------------------------------
(* The mutating calls of one process: the in-memory change, then           *)
(* _save_to_file one system call per action.                               *)

\* serialized_data of _save_to_file, built before the lock is taken
BeginSave(p, store) ==
    proc' = [proc EXCEPT ![p].pc = "save_open", ![p].store = store,
                         ![p].buf = Chunks(SerializeStore(store)),
                         ![p].pos = 0, ![p].failed = FALSE]

ProcGenerate(p) ==
    /\ proc[p].pc = "ready"
    /\ Len(issued) < MaxSharedKeys
    /\ LET raw_apikey == RawApikey(DefaultPrefix, RandomPart(DefaultLength, issued))
           meta == NewMeta(raw_apikey, None, {READ}, Now, None)
       IN /\ BeginSave(p, StorePut(proc[p].store, HashApikey(raw_apikey), meta))
          /\ issued' = Append(issued, raw_apikey)
    /\ UNCHANGED <<apikey_store, file, now, last, disabledKeys, fsPath, fsData, fsLock, fsHist>>

ProcDisable(p, raw_apikey) ==
    /\ proc[p].pc = "ready"
    /\ IF HashApikey(raw_apikey) \notin DOMAIN proc[p].store
       THEN UNCHANGED proc
       ELSE BeginSave(p, Deactivate(proc[p].store, HashApikey(raw_apikey)))
    /\ UNCHANGED <<mgrVars, fsPath, fsData, fsLock, fsHist>>

ProcDelete(p, raw_apikey) ==
    /\ proc[p].pc = "ready"
    /\ IF HashApikey(raw_apikey) \notin DOMAIN proc[p].store
       THEN UNCHANGED proc
       ELSE BeginSave(p, StoreDel(proc[p].store, HashApikey(raw_apikey)))
    /\ UNCHANGED <<mgrVars, fsPath, fsData, fsLock, fsHist>>

SaveLockOpen(p) ==
    /\ proc[p].pc = "save_open"
    /\ LockOpen(p, "save_lock")
    /\ UNCHANGED <<mgrVars, fsData, fsLock, fsHist>>

SaveLockAcquire(p) ==
    /\ proc[p].pc = "save_lock"
    /\ LockAcquire(p, "save_tmp")
    /\ UNCHANGED <<mgrVars, fsPath, fsData, fsHist>>

\* open(temp_file, "w"): creates the temp file, or truncates the one there
SaveOpenTemp(p) ==
    /\ proc[p].pc = "save_tmp"
    /\ IF fsPath.tmp = 0
       THEN /\ fsPath' = [fsPath EXCEPT !.tmp = FreshInode]
            /\ proc' = [proc EXCEPT ![p].tmp_fd = FreshInode, ![p].pc = "save_write"]
            /\ fsData' = [fsData EXCEPT ![FreshInode] = <<>>]
       ELSE /\ proc' = [proc EXCEPT ![p].tmp_fd = fsPath.tmp, ![p].pc = "save_write"]
            /\ fsData' = [fsData EXCEPT ![fsPath.tmp] = <<>>]
            /\ UNCHANGED fsPath
    /\ UNCHANGED <<mgrVars, fsLock, fsHist>>

\* json.dump(serialized_data, f): the next write; the last one closes the file
SaveWrite(p) ==
    /\ proc[p].pc = "save_write"
    /\ LET written == WriteAt(fsData[proc[p].tmp_fd], proc[p].pos,
                              proc[p].buf[proc[p].pos + 1])
           closing == proc[p].pos + 1 = Len(proc[p].buf)
       IN /\ proc' = [proc EXCEPT ![p].pos = IF closing THEN 0 ELSE @ + 1,
                                  ![p].buf = IF closing THEN <<>> ELSE @,
                                  ![p].tmp_fd = IF closing THEN 0 ELSE @,
                                  ![p].pc = IF closing THEN "save_replace" ELSE @]
          /\ fsData' = Reclaim([fsData EXCEPT ![proc[p].tmp_fd] = written],
                               fsPath, proc')
    /\ UNCHANGED <<mgrVars, fsPath, fsLock, fsHist>>

\* f.write() raises OSError: the exception closes the temp file, leaves the
\* `with` blocks and becomes RuntimeError; what was written stays at the temp path
SaveWriteFails(p) ==
    /\ proc[p].pc = "save_write"
    /\ faults < MaxFaults
    /\ faults' = faults + 1
    /\ proc' = [proc EXCEPT ![p].pos = 0, ![p].buf = <<>>, ![p].tmp_fd = 0,
                            ![p].pc = "save_unlock", ![p].failed = TRUE]
    /\ fsData' = Reclaim(fsData, fsPath, proc')
    /\ UNCHANGED <<mgrVars, fsPath, fsLock, revoked>>

\* os.replace(temp_file, self.persist_file): FileNotFoundError when the temp
\* path is gone, which leaves the `with` block and becomes RuntimeError
SaveReplace(p) ==
    /\ proc[p].pc = "save_replace"
    /\ IF fsPath.tmp = 0
       THEN /\ proc' = [proc EXCEPT ![p].pc = "save_unlock", ![p].failed = TRUE]
            /\ UNCHANGED <<fsPath, fsData>>
       ELSE /\ fsPath' = [live |-> fsPath.tmp, tmp |-> 0]
            /\ proc' = [proc EXCEPT ![p].pc = "save_unlock"]
            /\ fsData' = Reclaim(fsData, fsPath', proc')
    /\ UNCHANGED <<mgrVars, fsLock, fsHist>>

\* FileLock.__exit__ of the save: the call returns, or raises
SaveLockRelease(p) ==
    /\ proc[p].pc = "save_unlock"
    /\ LockRelease(p, "ready")
    /\ UNCHANGED <<mgrVars, fsPath, fsHist>>

\* the process ends and a new one constructs its manager on the same path
ProcRestart(p) ==
    /\ proc[p].pc = "ready"
    /\ proc' = [proc EXCEPT ![p] = InitProc]
    /\ UNCHANGED <<mgrVars, fsPath, fsData, fsLock, fsHist>>

-----------------------------------------------------------------------------
(* APIKeyManager.__init__ -> _load_from_file on whatever the persist path  *)
(* holds: the outcomes of os.path.exists, of the two open() calls, of      *)
(* json.load and of _deserialize_value.                                    *)

\* no file at the path
Absent == [kind |-> "absent"]

\* a file the process may not open: open() raises PermissionError
Unreadable == [kind |-> "unreadable"]

\* a file whose read fails: f.read() raises OSError
ReadError == [kind |-> "io_error"]

\* a file whose text is not JSON (the empty file included)
NotJson == [kind |-> "not_json"]

\* a file whose text is JSON but no object: [], 3, "x", null
JsonArray == [kind |-> "json_array"]

\* a file whose text is a JSON object; doc maps each key to its value
JsonObject(doc) == [kind |-> "json_object", doc |-> doc]

\* a value of the top-level object that is no object itself
Scalar == [t |-> "scalar"]

\* a value of the top-level object that is an object with the meta fields
Dict(meta) == [t |-> "dict", meta |-> meta]

\* the offset suffixes datetime.fromisoformat accepts
IsoOffsets == {"", "+00:00", "+01:00", "-01:00"}

\* datetime.fromisoformat(value) raises ValueError
FromIsoFormatRaises(value) == value # None /\ value[1].offset \notin IsoOffsets

\* APIPermission(val_int) raises ValueError: no member or union of members
PermOfValueRaises(v) == v \notin 0..PermValue(FULL_ACCESS)

\* meta.items() raises AttributeError, or _deserialize_value raises RuntimeError
DeserializeMetaRaises(entry) ==
    \/ entry.t # "dict"
    \/ /\ entry.t = "dict"
       /\ \/ FromIsoFormatRaises(entry.meta.expire_at)
          \/ FromIsoFormatRaises(entry.meta.created_at)
          \/ PermOfValueRaises(entry.meta.permissions)

\* _load_from_file: the store it returns or the exception it raises
LoadOutcome(disk) ==
    CASE disk.kind = "absent" -> Returned(EmptyStore)
      [] disk.kind = "unreadable" -> Raised("PermissionError")
      [] disk.kind = "io_error" -> Raised("RuntimeError")
      [] disk.kind = "not_json" -> Returned(EmptyStore)
      [] disk.kind = "json_array" -> Raised("RuntimeError")
      [] disk.kind = "json_object" ->
            IF \E h \in DOMAIN disk.doc : DeserializeMetaRaises(disk.doc[h])
            THEN Raised("RuntimeError")
            ELSE Returned(DeserializeStore([h \in DOMAIN disk.doc |-> disk.doc[h].meta]))

\* APIKeyManager(salt, persist_file): the manager exists when the load returned
Construct ==
    /\ last.op = "init"
    /\ last' = [op |-> "construct", res |-> LoadOutcome(file)]
    /\ apikey_store' = IF "ret" \in DOMAIN LoadOutcome(file)
                       THEN LoadOutcome(file).ret
                       ELSE apikey_store
    /\ UNCHANGED <<file, now, issued, disabledKeys, fsVars>>

\* the timestamps a file may hold: none, naive, at +00:00, at +01:00, and one
\* whose offset no datetime has
DiskTimestamps ==
    {None} \cup {Some([iso |-> 0, offset |-> o]) : o \in {"", "+00:00", "+01:00", "+99:99"}}

\* the permission numbers a file may hold: members, unions, and 8
DiskPermissions == {PermValue(NONE), PermValue({READ}), PermValue(FULL_ACCESS),
                    PermValue(FULL_ACCESS) + 1}

DiskMetas ==
    [raw_apikey : {UnknownSecret},
     expire_at : DiskTimestamps,
     permissions : DiskPermissions,
     created_at : DiskTimestamps \ {None},
     user_id : {None},
     is_active : BOOLEAN]

\* what the persist path may hold when a manager is constructed on it
DiskStates ==
    {Absent, Unreadable, ReadError, NotJson, JsonArray, JsonObject(EmptyStore)}
        \cup {JsonObject([h \in {HashApikey(UnknownSecret)} |-> Scalar])}
        \cup {JsonObject([h \in {HashApikey(UnknownSecret)} |-> Dict(m)]) : m \in DiskMetas}

-----------------------------------------------------------------------------
(* Several managers on one persist path, each in its own process, every    *)
(* call running from its start to its return before the next call starts:  *)
(* proc[p].store is the map of the manager of process p, `file` the file    *)
(* they share.                                                              *)

\* APIKeyManager(salt, persist_file) in process p
SharedConstruct(p) ==
    /\ proc[p].pc = "start"
    /\ proc' = [proc EXCEPT ![p].pc = "ready", ![p].store = LoadFromFile(file)]
    /\ UNCHANGED <<mgrVars, fsPath, fsData, fsLock, fsHist>>

\* generate_apikey(permissions=READ) in process p
SharedGenerate(p) ==
    /\ proc[p].pc = "ready"
    /\ Len(issued) < MaxKeys
    /\ LET raw_apikey == RawApikey(DefaultPrefix, RandomPart(DefaultLength, issued))
           meta == NewMeta(raw_apikey, None, {READ}, Now, None)
           store == StorePut(proc[p].store, HashApikey(raw_apikey), meta)
       IN /\ proc' = [proc EXCEPT ![p].store = store]
          /\ file' = SaveToFile(store)
          /\ issued' = Append(issued, raw_apikey)
    /\ UNCHANGED <<apikey_store, now, last, disabledKeys, fsPath, fsData, fsLock, fsHist>>

\* disable_apikey(raw_apikey) in process p
SharedDisable(p, raw_apikey) ==
    /\ proc[p].pc = "ready"
    /\ HashApikey(raw_apikey) \in DOMAIN proc[p].store
    /\ LET store == Deactivate(proc[p].store, HashApikey(raw_apikey))
       IN /\ proc' = [proc EXCEPT ![p].store = store]
          /\ file' = SaveToFile(store)
    /\ revoked' = revoked \cup {raw_apikey}
    /\ UNCHANGED <<apikey_store, now, issued, last, disabledKeys, fsPath, fsData, fsLock,
                   faults>>

\* delete_apikey(raw_apikey) in process p
SharedDelete(p, raw_apikey) ==
    /\ proc[p].pc = "ready"
    /\ HashApikey(raw_apikey) \in DOMAIN proc[p].store
    /\ LET store == StoreDel(proc[p].store, HashApikey(raw_apikey))
       IN /\ proc' = [proc EXCEPT ![p].store = store]
          /\ file' = SaveToFile(store)
    /\ revoked' = revoked \cup {raw_apikey}
    /\ UNCHANGED <<apikey_store, now, issued, last, disabledKeys, fsPath, fsData, fsLock,
                   faults>>

-----------------------------------------------------------------------------
(* The mutating calls of one manager when _save_to_file raises: the lock   *)
(* file or the temp file cannot be opened or written, or os.replace fails. *)
(* The in-memory change is made before the save is tried, and the file at  *)
(* the persist path is replaced only by a save that succeeds.              *)

\* what _save_to_file raises: PermissionError as it is, anything else as
\* RuntimeError
SaveErrors == {"PermissionError", "RuntimeError"}

\* generate_apikey whose save raises; the secret was drawn, the caller never
\* gets it
GenerateApikeySaveFails(args, exc) ==
    /\ LengthOrDefault(args.length) >= MinLength
    /\ args.permissions.kind # "other"
    /\ args.expire_at.kind # "other"
    /\ Len(issued) < MaxKeys
    /\ LET raw_apikey == RawApikey(PrefixOrDefault(args.prefix),
                                   RandomPart(LengthOrDefault(args.length), issued))
           meta == NewMeta(raw_apikey,
                           ExpireAtOf(args.expire_at, Now),
                           PermissionsOf(args.permissions),
                           Now,
                           args.user_id)
       IN /\ apikey_store' = StorePut(apikey_store, HashApikey(raw_apikey), meta)
          /\ issued' = Append(issued, raw_apikey)
          /\ last' = [op |-> "generate", args |-> args, res |-> Raised(exc)]
    /\ UNCHANGED <<file, now, disabledKeys, fsVars>>

\* disable_apikey whose save raises
DisableApikeySaveFails(raw_apikey, exc) ==
    /\ HashApikey(raw_apikey) \in DOMAIN apikey_store
    /\ apikey_store' = Deactivate(apikey_store, HashApikey(raw_apikey))
    /\ last' = [op |-> "disable", api_key |-> raw_apikey, res |-> Raised(exc)]
    /\ UNCHANGED <<file, now, issued, disabledKeys, fsVars>>

\* delete_apikey whose save raises
DeleteApikeySaveFails(raw_apikey, exc) ==
    /\ HashApikey(raw_apikey) \in DOMAIN apikey_store
    /\ apikey_store' = StoreDel(apikey_store, HashApikey(raw_apikey))
    /\ last' = [op |-> "delete", api_key |-> raw_apikey, res |-> Raised(exc)]
    /\ UNCHANGED <<file, now, issued, disabledKeys, fsVars>>

-----------------------------------------------------------------------------
(* Specifications *)

Init ==
    /\ file = None
    /\ apikey_store = LoadFromFile(file)
    /\ now = 0
    /\ issued = <<>>
    /\ last = [op |-> "init"]
    /\ disabledKeys = {}
    /\ proc = [p \in Procs |-> InitProc]
    /\ fsPath = [live |-> 0, tmp |-> 0]
    /\ fsData = [i \in Inodes |-> <<>>]
    /\ fsLock = [i \in Inodes |-> 0]
    /\ revoked = {}
    /\ faults = 0

\* one manager, one process
Next ==
    \/ \E args \in GenerateInputs : GenerateApikey(args)
    \/ \E s \in Secrets, r \in RequiredInputs : Validate(s, r)
    \/ \E s \in Secrets : DisableApikey(s)
    \/ \E s \in Secrets : DeleteApikey(s)
    \/ \E s \in Secrets : GetApikeyMeta(s)
    \/ \E h \in Headers : FetchHtml(h)
    \/ Restart
    \/ Tick

Spec == Init /\ [][Next]_vars

\* one manager, one process, saves that may fail
NextIO ==
    \/ Next
    \/ \E args \in GenerateInputs, exc \in SaveErrors : GenerateApikeySaveFails(args, exc)
    \/ \E s \in Secrets, exc \in SaveErrors : DisableApikeySaveFails(s, exc)
    \/ \E s \in Secrets, exc \in SaveErrors : DeleteApikeySaveFails(s, exc)

SpecIO == Init /\ [][NextIO]_vars

\* several processes on one persist path
NextFS ==
    \E p \in Procs :
        \/ LoadExists(p)
        \/ LoadLockOpen(p)
        \/ LoadLockAcquire(p)
        \/ LoadRead(p)
        \/ LoadLockRelease(p)
        \/ ProcGenerate(p)
        \/ \E s \in Secrets : ProcDisable(p, s)
        \/ \E s \in Secrets : ProcDelete(p, s)
        \/ SaveLockOpen(p)
        \/ SaveLockAcquire(p)
        \/ SaveOpenTemp(p)
        \/ SaveWrite(p)
        \/ SaveReplace(p)
        \/ SaveLockRelease(p)
        \/ ProcRestart(p)

SpecFS == Init /\ [][NextFS]_vars

\* several managers on one persist path, one call at a time
NextShared ==
    \E p \in Procs :
        \/ SharedConstruct(p)
        \/ SharedGenerate(p)
        \/ \E s \in Secrets : SharedDisable(p, s)
        \/ \E s \in Secrets : SharedDelete(p, s)
        \/ ProcRestart(p)

SpecShared == Init /\ [][NextShared]_vars

\* the steps of a load or a save that never block: a process that is
\* scheduled takes them
Continue(p) ==
    \/ LoadLockOpen(p)
    \/ LoadRead(p)
    \/ LoadLockRelease(p)
    \/ SaveLockOpen(p)
    \/ SaveOpenTemp(p)
    \/ SaveWrite(p)
    \/ SaveReplace(p)
    \/ SaveLockRelease(p)

\* flock(LOCK_EX) returning: the blocked process is woken when the lock is
\* released
Acquire(p) == LoadLockAcquire(p) \/ SaveLockAcquire(p)

\* fair scheduling: a process inside a load or a save keeps running, and a
\* process blocked in flock gets the lock if it is free again and again
Fairness ==
    \A p \in Procs : WF_vars(Continue(p)) /\ SF_vars(Acquire(p))

SpecFSFair == Init /\ [][NextFS]_vars /\ Fairness

\* several processes on one persist path whose reads and writes may fail
NextFSIO ==
    \/ NextFS
    \/ \E p \in Procs : LoadReadFails(p)
    \/ \E p \in Procs : SaveWriteFails(p)

SpecFSIO == Init /\ [][NextFSIO]_vars

\* a manager constructed on any file state
InitLoad ==
    /\ file \in DiskStates
    /\ apikey_store = EmptyStore
    /\ now = 0
    /\ issued = <<>>
    /\ last = [op |-> "init"]
    /\ disabledKeys = {}
    /\ proc = [p \in Procs |-> InitProc]
    /\ fsPath = [live |-> 0, tmp |-> 0]
    /\ fsData = [i \in Inodes |-> <<>>]
    /\ fsLock = [i \in Inodes |-> 0]
    /\ revoked = {}
    /\ faults = 0

NextLoad == Construct

SpecLoad == InitLoad /\ [][NextLoad]_vars


-----------------------------------------------------------------------------
(* Claims about one manager (Spec) *)

\* the required set as a set of bits, absent meaning none required
RequiredBits(r) == IF r = None THEN {} ELSE r[1]

\* the record stored for a secret
MetaOf(s) == apikey_store[HashApikey(s)]

Present(s) == HashApikey(s) \in DOMAIN apikey_store

\* now > expireAt, on the instants
ExpiredNow(s) ==
    /\ MetaOf(s).expire_at # None
    /\ now > MetaOf(s).expire_at[1].wall - MetaOf(s).expire_at[1].tz[1]

\* C1: validate decides by the first matching rule, in the order not found,
\* disabled, expired, insufficient permission, ok, for every store the
\* manager reaches, every clock reading and every required set.
C1_DecisionOrder ==
    \A s \in Secrets, r \in RequiredSets :
        LET v == ValidateApikey(apikey_store, Now, s, r) IN
        CASE ~Present(s) ->
                v = [is_valid |-> FALSE, is_expired |-> FALSE,
                     has_permission |-> FALSE, message |-> "not found"]
          [] Present(s) /\ ~MetaOf(s).is_active ->
                v = [is_valid |-> FALSE, is_expired |-> FALSE,
                     has_permission |-> FALSE, message |-> "disabled"]
          [] Present(s) /\ MetaOf(s).is_active /\ ExpiredNow(s) ->
                v = [is_valid |-> FALSE, is_expired |-> TRUE,
                     has_permission |-> FALSE, message |-> "expired"]
          [] /\ Present(s) /\ MetaOf(s).is_active /\ ~ExpiredNow(s)
             /\ ~(RequiredBits(r) \subseteq MetaOf(s).permissions) ->
                v = [is_valid |-> TRUE, is_expired |-> FALSE,
                     has_permission |-> FALSE, message |-> "insufficient permission"]
          [] OTHER ->
                v = [is_valid |-> TRUE, is_expired |-> FALSE,
                     has_permission |-> TRUE, message |-> "ok",
                     permissions |-> MetaOf(s).permissions,
                     expire_at |-> MetaOf(s).expire_at,
                     created_at |-> MetaOf(s).created_at,
                     user_id |-> MetaOf(s).user_id]

\* C1 witness: validate has answered "disabled" for a record that is
\* inactive and expired at once
C1_Witness ==
    /\ last.op = "validate"
    /\ Present(last.api_key)
    /\ ~MetaOf(last.api_key).is_active
    /\ ExpiredNow(last.api_key)
    /\ last.res.ret.message = "disabled"

\* C2: the fetcher runs for a request only when validate(key, READ) returned
\* isValid and hasPermission; a request whose validation fails gets 403 and
\* does not reach the fetcher.
C2_FetchOnlyAfterValidation ==
    (last.op = "request" /\ last.header # None) =>
        IF last.valid.is_valid /\ last.valid.has_permission
        THEN last.fetched
        ELSE last.status = HTTP_403_FORBIDDEN /\ ~last.fetched

\* C5: once the record under a key is inactive it stays as it is in every
\* later state, or is removed, and only a delete of that key removes it.
C5_ActiveMonotone ==
    [][\A h \in DOMAIN apikey_store :
          ~apikey_store[h].is_active =>
              IF h \in DOMAIN apikey_store'
              THEN apikey_store'[h] = apikey_store[h]
              ELSE last'.op = "delete" /\ HashApikey(last'.api_key) = h]_vars

\* C5 witness: a generate has succeeded on a manager holding an inactive record
C5_Witness ==
    /\ last.op = "generate"
    /\ "ret" \in DOMAIN last.res
    /\ \E h \in DOMAIN apikey_store : ~apikey_store[h].is_active

\* C6: disable returns whether the secret is in the store, and from a
\* disable that returned true until the delete of the secret every validate
\* of it, whatever is required, answers "disabled" with isValid and isExpired
\* false.
C6_DisableThenValidate ==
    /\ last.op = "disable" => last.res.ret = Present(last.api_key)
    /\ \A s \in disabledKeys, r \in RequiredSets :
          ValidateApikey(apikey_store, Now, s, r) =
              [is_valid |-> FALSE, is_expired |-> FALSE,
               has_permission |-> FALSE, message |-> "disabled"]

\* C6 witness: validate has answered for a disabled secret whose expiry has passed
C6_Witness ==
    /\ last.op = "validate"
    /\ last.api_key \in disabledKeys
    /\ ExpiredNow(last.api_key)
    /\ last.res.ret.message = "disabled"

\* the permission set a text input names
NamedByText(text) ==
    CASE text = "" -> {}
      [] text = "none" -> {}
      [] text = "read,write" -> {READ, WRITE}
      [] text = "READ, Delete" -> {READ, DELETE}
      [] text = "full_access" -> {READ, WRITE, DELETE}
      [] text = "write,bogus" -> {WRITE}

\* the permission set P a generate call was given
GivenPermissions(permissions) ==
    IF permissions.kind = "str" THEN NamedByText(permissions.text) ELSE permissions.flag

\* C7: right after generate(permissions=P) without expiry returned s,
\* validate(s, R) is valid for every R and has the permission exactly when
\* R is a subset of P.
C7_GenerateThenValidate ==
    (last.op = "generate" /\ "ret" \in DOMAIN last.res /\ last.args.expire_at = NoExpiry) =>
        \A r \in RequiredSets :
            LET v == ValidateApikey(apikey_store, Now, last.res.ret, r) IN
            /\ v.is_valid
            /\ ~v.is_expired
            /\ v.has_permission <=>
                   (RequiredBits(r) \subseteq GivenPermissions(last.args.permissions))

\* C7 witness: generate was given the text "READ, Delete" and its secret lacks WRITE
C7_Witness ==
    /\ last.op = "generate"
    /\ "ret" \in DOMAIN last.res
    /\ last.args.permissions = Text("READ, Delete")
    /\ ~ValidateApikey(apikey_store, Now, last.res.ret, Some({WRITE})).has_permission
    /\ ValidateApikey(apikey_store, Now, last.res.ret, Some({READ, DELETE})).has_permission

\* two optional timestamps denote the same instant
SameInstant(a, b) ==
    IF a = None \/ b = None
    THEN a = b
    ELSE a[1].tz # None /\ b[1].tz # None /\ Instant(a[1]) = Instant(b[1])

\* C8: a manager constructed on the file of a completed save holds the same
\* keys and, per record, the same secret, expiry instant, permission bitmask,
\* creation instant, user id and active flag, and validates every secret the
\* same way.
C8_SaveReloadRoundTrip ==
    file # None =>
        LET reloaded == LoadFromFile(file) IN
        /\ DOMAIN reloaded = DOMAIN apikey_store
        /\ \A h \in DOMAIN apikey_store :
              /\ reloaded[h].raw_apikey = apikey_store[h].raw_apikey
              /\ SameInstant(reloaded[h].expire_at, apikey_store[h].expire_at)
              /\ PermValue(reloaded[h].permissions) = PermValue(apikey_store[h].permissions)
              /\ SameInstant(reloaded[h].created_at, apikey_store[h].created_at)
              /\ reloaded[h].user_id = apikey_store[h].user_id
              /\ reloaded[h].is_active = apikey_store[h].is_active
        /\ \A s \in Secrets, r \in RequiredSets :
              ValidateApikey(reloaded, Now, s, r) = ValidateApikey(apikey_store, Now, s, r)

\* C8 witness: a manager was constructed on a file holding a disabled key and
\* a key whose expiry carries the offset +01:00
C8_Witness ==
    /\ last.op = "restart"
    /\ \E s \in disabledKeys : Present(s) /\ ~MetaOf(s).is_active
    /\ \E h \in DOMAIN apikey_store :
          /\ apikey_store[h].expire_at # None
          /\ apikey_store[h].expire_at[1].tz = Some(1)

\* C9: delete of a secret that is not in the store returns false and leaves
\* the map and the file as they are; delete of a secret in the store removes
\* that record and no other, writes the file, and returns true.
C9_DeleteFrame ==
    [][(last'.op = "delete" /\ now' = now) =>
          LET h == HashApikey(last'.api_key) IN
          IF h \notin DOMAIN apikey_store
          THEN /\ last'.res.ret = FALSE
               /\ apikey_store' = apikey_store
               /\ file' = file
          ELSE /\ last'.res.ret = TRUE
               /\ DOMAIN apikey_store' = DOMAIN apikey_store \ {h}
               /\ \A k \in DOMAIN apikey_store' : apikey_store'[k] = apikey_store[k]
               /\ file' # None
               /\ LoadFromFile(file') = apikey_store']_vars

\* C9 witness: delete of the unknown secret returned false on a manager that
\* holds a record and has written its file
C9_Witness ==
    /\ last.op = "delete"
    /\ last.api_key = UnknownSecret
    /\ last.res.ret = FALSE
    /\ file # None
    /\ DOMAIN apikey_store # {}

\* the prefix a returned secret starts with
PrefixGiven(prefix) == IF prefix = None \/ prefix[1] = "" THEN DefaultPrefix ELSE prefix[1]

\* C10: generate with a length below 8, zero and negatives included, fails
\* with the length error; with a length of 8 or more it returns a secret
\* which has that many characters after its prefix.
C10_LengthValidation ==
    (last.op = "generate" /\ last.args.length # None) =>
        IF last.args.length[1] < MinLength
        THEN last.res = Raised("ValueError")
        ELSE /\ "ret" \in DOMAIN last.res
             /\ Len(last.res.ret) - Len(PrefixGiven(last.args.prefix)) = last.args.length[1]

\* the expiry of the record lies before its creation
PastAtIssue(meta) ==
    /\ meta.expire_at # None
    /\ meta.expire_at[1].wall - meta.expire_at[1].tz[1]
           < meta.created_at[1].wall - meta.created_at[1].tz[1]

\* the expire_at argument lies before the clock reading: a negative duration,
\* or an absolute timestamp before it (a naive one read as UTC)
GivenInPast(expire_at, clock) ==
    \/ expire_at.kind = "timedelta" /\ expire_at.delta < 0
    \/ /\ expire_at.kind = "datetime"
       /\ expire_at.dt.wall - (IF expire_at.dt.tz = None THEN 0 ELSE expire_at.dt.tz[1])
              < clock

\* every validate of the secret answers "expired"
AnswersExpired(store, clock, s) ==
    \A r \in RequiredSets :
        ValidateApikey(store, Datetime(clock, UTC), s, r) =
            [is_valid |-> FALSE, is_expired |-> TRUE,
             has_permission |-> FALSE, message |-> "expired"]

\* once validate has reported the secret expired it never reports it valid
ExpiredStaysInvalid ==
    \A s \in Secrets :
        ValidateApikey(apikey_store, Now, s, None).is_expired =>
            \A r \in RequiredSets :
                ~ValidateApikey(apikey_store', Datetime(now', UTC), s, r).is_valid

\* generate with an expiry in the past has stored an active record
PastExpiryStoredActive ==
    (/\ last'.op = "generate" /\ now' = now /\ "ret" \in DOMAIN last'.res
     /\ GivenInPast(last'.args.expire_at, now)) =>
        /\ HashApikey(last'.res.ret) \in DOMAIN apikey_store'
        /\ apikey_store'[HashApikey(last'.res.ret)].is_active
        /\ PastAtIssue(apikey_store'[HashApikey(last'.res.ret)])

\* C13 as stated: a key generated with an expiry in the past is stored as an
\* active record and every later validate of it returns isValid false and
\* isExpired true; once reported expired, a key is never again valid.
C13_PastExpiryAlwaysExpired ==
    [][/\ PastExpiryStoredActive
       /\ \A h \in DOMAIN apikey_store' :
             PastAtIssue(apikey_store'[h]) =>
                 AnswersExpired(apikey_store', now', apikey_store'[h].raw_apikey)
       /\ ExpiredStaysInvalid]_vars

\* C13 amended: a key generated with an expiry in the past is stored as an
\* active record and every later validate of it, while the record is in the
\* store and active, returns isValid false and isExpired true; once reported
\* expired, a key is never again valid.
C13_PastExpiryWhileActive ==
    [][/\ PastExpiryStoredActive
       /\ \A h \in DOMAIN apikey_store' :
             (PastAtIssue(apikey_store'[h]) /\ apikey_store'[h].is_active) =>
                 AnswersExpired(apikey_store', now', apikey_store'[h].raw_apikey)
       /\ ExpiredStaysInvalid]_vars

\* C13 witness: validate has answered "expired" for a key issued with an
\* absolute expiry at +01:00 that lay before the clock
C13_Witness ==
    /\ last.op = "validate"
    /\ Present(last.api_key)
    /\ PastAtIssue(MetaOf(last.api_key))
    /\ MetaOf(last.api_key).expire_at[1].tz = Some(1)
    /\ MetaOf(last.api_key).is_active
    /\ last.res.ret.is_expired
    /\ ~last.res.ret.is_valid


\* C14: disable changes nothing but the active flag of the record it names:
\* the key set, the other fields of that record and every other record stay
\* as they are; and no step of any operation changes the createdAt of a
\* record that stays in the store.
C14_DisableFrame ==
    [][/\ (last'.op = "disable" /\ now' = now) =>
              /\ DOMAIN apikey_store' = DOMAIN apikey_store
              /\ \A k \in DOMAIN apikey_store :
                    IF k = HashApikey(last'.api_key)
                    THEN /\ apikey_store'[k].raw_apikey = apikey_store[k].raw_apikey
                         /\ apikey_store'[k].expire_at = apikey_store[k].expire_at
                         /\ apikey_store'[k].permissions = apikey_store[k].permissions
                         /\ apikey_store'[k].created_at = apikey_store[k].created_at
                         /\ apikey_store'[k].user_id = apikey_store[k].user_id
                         /\ ~apikey_store'[k].is_active
                    ELSE apikey_store'[k] = apikey_store[k]
       /\ \A k \in DOMAIN apikey_store \cap DOMAIN apikey_store' :
              apikey_store'[k].created_at = apikey_store[k].created_at]_vars

\* C14 witness: disable has returned true for a record that has an expiry,
\* on a manager holding another record too
C14_Witness ==
    /\ last.op = "disable"
    /\ last.res.ret = TRUE
    /\ Cardinality(DOMAIN apikey_store) = 2
    /\ MetaOf(last.api_key).expire_at # None
    /\ ~MetaOf(last.api_key).is_active

\* C15: validate and getMeta leave the in-memory map and the file as they
\* are, whatever they answer.
C15_ReadOnly ==
    [][(last'.op \in {"validate", "get_meta"} /\ now' = now) =>
          /\ apikey_store' = apikey_store
          /\ file' = file]_vars

\* C15 witness: validate has answered "expired" on a manager that has
\* written its file
C15_Witness ==
    /\ last.op = "validate"
    /\ last.res.ret.message = "expired"
    /\ file # None
    /\ LoadFromFile(file) = apikey_store


\* the prefix a call asks for: its argument, the configured default when
\* it gives none
PrefixAsked(prefix) == IF prefix = None THEN DefaultPrefix ELSE prefix[1]

\* the length n a call asks for: its argument, the configured default when
\* it gives none
LengthAsked(length) == IF length = None THEN DefaultLength ELSE length[1]

\* every character of the text is one of the configured charset
InCharset(text) ==
    \A i \in 1..Len(text) :
        \E j \in 1..Len(GetCharset) : CharAt(text, i) = CharAt(GetCharset, j)

\* C16: for a length n >= 8, generate returns the prefix argument followed
\* by exactly n charset characters, nothing prepended when the argument is
\* the empty string and the default prefix only when no argument is given;
\* the stored record's secret is the returned value.
C16_PrefixThenRandomPart ==
    (/\ last.op = "generate"
     /\ "ret" \in DOMAIN last.res
     /\ LengthAsked(last.args.length) >= MinLength) =>
        LET p == PrefixAsked(last.args.prefix)
            n == LengthAsked(last.args.length)
            s == last.res.ret
        IN /\ Len(s) = Len(p) + n
           /\ SubSeq(s, 1, Len(p)) = p
           /\ InCharset(SubSeq(s, Len(p) + 1, Len(s)))
           /\ Present(s)
           /\ MetaOf(s).raw_apikey = s

\* C17: in every store the manager reaches, every createdAt and every
\* expireAt that is not absent is an aware timestamp in UTC, whether it came
\* from generate (a duration, a naive or an aware absolute timestamp) or
\* from the file.
C17_TimestampsUTC ==
    \A h \in DOMAIN apikey_store :
        /\ apikey_store[h].created_at # None
        /\ apikey_store[h].created_at[1].tz = UTC
        /\ apikey_store[h].expire_at # None => apikey_store[h].expire_at[1].tz = UTC


-----------------------------------------------------------------------------
(* Claims about the shared persist path (SpecFS) *)

\* between lock acquisition and lock release of _save_to_file
InSaveSection(p) ==
    proc[p].pc \in {"save_tmp", "save_write", "save_replace", "save_unlock"}

\* C3: the content at the live path is at every moment the complete
\* serialization of one finished save, or the file is absent or empty: never
\* a truncated write or a mix of two writes.
C3_LiveFileNeverPartial ==
    fsPath.live # 0 =>
        \/ fsData[fsPath.live] = <<>>
        \/ IsDocument(fsData[fsPath.live])

\* C4: no two processes are at the same time between lock acquisition and
\* lock release of _save_to_file on the persist path.
C4_SaveMutualExclusion ==
    \A p, q \in Procs : p # q => ~(InSaveSection(p) /\ InSaveSection(q))

-----------------------------------------------------------------------------
(* Claims about construction on any file state (SpecLoad) *)

\* the file is readable and its content is a record of records with
\* well-formed timestamp and permission fields
ValidPerSchema(disk) ==
    /\ disk.kind = "json_object"
    /\ \A h \in DOMAIN disk.doc :
          /\ disk.doc[h].t = "dict"
          /\ \A k \in {"expire_at", "created_at"} :
                \/ disk.doc[h].meta[k] = None
                \/ disk.doc[h].meta[k][1].offset \in {"", "+00:00", "+01:00", "-01:00"}
          /\ disk.doc[h].meta.permissions \in 0..7

\* C11: construction on an absent file gives the empty store; on content
\* that is not valid per the schema (not JSON, or JSON that is no record of
\* records with well-formed timestamp and permission fields) it succeeds
\* with the empty store; on a permission or IO failure it fails.
C11_LoadClassification ==
    last.op = "construct" =>
        CASE file.kind = "absent" ->
                last.res = [ret |-> EmptyStore] /\ apikey_store = EmptyStore
          [] file.kind \in {"unreadable", "io_error"} ->
                "raised" \in DOMAIN last.res
          [] file.kind \in {"not_json", "json_array", "json_object"}
                /\ ~ValidPerSchema(file) ->
                last.res = [ret |-> EmptyStore] /\ apikey_store = EmptyStore
          [] OTHER -> "ret" \in DOMAIN last.res

-----------------------------------------------------------------------------
(* Claims about the shared persist path with failing reads and writes      *)
(* (SpecFSIO)                                                              *)

\* the process holds the flock on some inode
HoldsLock(p) == \E i \in Inodes : fsLock[i] = p

\* between FileLock.__enter__ and FileLock.__exit__ of a load or a save
InLockScope(p) ==
    proc[p].pc \in {"load_read", "load_unlock",
                    "save_tmp", "save_write", "save_replace", "save_unlock"}

\* C12: a process holds the file lock only inside the lock scope of a load
\* or a save, and at most one; after the call has returned or raised
\* (a failed read, a JSON parse error, a failed temp-file write, a failed
\* rename) it holds none and has no lock descriptor open.
C12_LockReleased ==
    \A p \in Procs :
        /\ HoldsLock(p) => InLockScope(p) /\ fsLock[proc[p].lock_fd] = p
        /\ Cardinality({i \in Inodes : fsLock[i] = p}) <= 1
        /\ proc[p].pc \in {"start", "ready"} => ~HoldsLock(p) /\ proc[p].lock_fd = 0

\* C12 witness: a save has raised after its temp-file write failed, and the
\* process is back with no lock held
C12_Witness ==
    \E p \in Procs :
        /\ faults > 0
        /\ proc[p].pc = "ready"
        /\ proc[p].failed
        /\ ~HoldsLock(p)

-----------------------------------------------------------------------------
(* Claims about the shared persist path under fair scheduling (SpecFSFair) *)

\* the process is inside a load or a save
InCall(p) == proc[p].pc \notin {"start", "ready"}

-----------------------------------------------------------------------------
(* Claims about several managers on one persist path (SpecShared) *)

\* C19: once a disable or a delete of a secret has completed its save, no
\* file content written later by any process holds the record of that
\* secret as active, and a manager constructed on the file never validates
\* the secret as valid.
C19_RevocationDurable ==
    \A s \in revoked :
        LET reloaded == LoadFromFile(file) IN
        /\ HashApikey(s) \in DOMAIN reloaded => ~reloaded[HashApikey(s)].is_active
        /\ \A r \in RequiredSets : ~ValidateApikey(reloaded, Now, s, r).is_valid

-----------------------------------------------------------------------------
(* Claims about one manager whose saves may fail (SpecIO) *)

\* C20: after every generate, disable or delete call of a single-process
\* run, returned or raised, the in-memory map is what the file holds; a call
\* that raises leaves the in-memory map as it was before the call.
C20_MemoryMatchesFile ==
    [][(last'.op \in {"generate", "disable", "delete"} /\ now' = now) =>
          /\ "raised" \in DOMAIN last'.res => apikey_store' = apikey_store
          /\ LoadFromFile(file') = apikey_store']_vars

====
